---- MODULE Spec2Model ----
(***************************************************************************)
(* Braille raster quantizer (v2ba.py frame_to_braille, main.py             *)
(* image_to_braille) and the video frame pipeline (v2ba.py                 *)
(* video_to_braille_frames).                                               *)
(*                                                                         *)
(* Strings are sequences of codepoints.  A call's outcome is a record      *)
(*   [kind |-> "return" | "raise", val |-> what is returned,               *)
(*    exc |-> the exception involved, text |-> the returned string]        *)
(* Library behaviour the code relies on:                                   *)
(*   PIL Image.resize raises ValueError("height and width must be > 0")    *)
(*     when either target dimension is < 1;                                *)
(*   numpy block[a, b] raises IndexError when a or b is outside the        *)
(*     block's shape; a slice is clipped to the array;                     *)
(*   int(x) truncates toward zero; a / b is true division, a // b floors.  *)
(* The arithmetic below is exact integer arithmetic; on the input sets     *)
(* used here the floating point results of the code are the same.          *)
(***************************************************************************)
EXTENDS Integers, Sequences, FiniteSets, TLC

\* ---------------------------------------------------------------- bounds
MaxImgW == 2          \* source image widths 1..MaxImgW
MaxImgH == 2          \* source image heights 1..MaxImgH
MaxWidth == 3         \* target widths -1..MaxWidth
MaxFrames == 9        \* finite video sources hold 0..MaxFrames frames

\* ------------------------------------------------------- program constants
BrailleBase == 10240  \* 0x2800
LF == 10              \* '\n'
VideoThreshold == 150 \* threshold=150 passed by video_to_braille_frames

\* ------------------------------------------------------------ input sets
Widths == -1 .. MaxWidth
Thresholds == {-1, 0, 1, 128, 150, 255, 256, 300}
PixLevels == {<<0, 255>>, <<100, 200>>, <<127, 128>>}
Seeds == {0, 255, 15, 240, 71, 184, 85, 170, 1, 2, 4, 8, 16, 32, 64, 128, 254, 127}
NativeFps == {0, 1, 2, 3, 30}
TargetFps == {1, 2, 10, 15}
MaxDurations == {-1, 0, 1}
VideoWidths == {1, 2}

VARIABLES
    pc,              \* position of the call: "start", "done"
    fn,              \* which function was called
    imgW, imgH,      \* size of the decoded image / video frame
    width,           \* target width in characters
    threshold,
    invert,          \* image_to_braille only
    readable,        \* image_to_braille only: Image.open succeeds
    resized,         \* the buffer img.resize returned (before inversion)
    pixels,          \* the buffer the quantizing loop reads
    result,          \* outcome of frame_to_braille / image_to_braille
    \* video_to_braille_frames
    opened,          \* cap.isOpened()
    endless,         \* the source never reports exhaustion (a live stream)
    srcLen,          \* frames a source that is not endless holds
    pos,             \* frames the capture has delivered so far
    video_fps, fps, max_duration,
    total_frames, frame_skip,
    frame_count, extracted_count,
    frames_data,     \* the manifest entries, in emission order
    sampled,         \* history: source counter of each emitted sample
    lap,             \* parity of the iterations run with the counter at its cap
    vresult          \* outcome of video_to_braille_frames

qvars == <<pc, fn, imgW, imgH, width, threshold, invert, readable, resized, pixels, result>>
vvars == <<opened, endless, srcLen, pos, video_fps, fps, max_duration, total_frames, frame_skip,
           frame_count, extracted_count, frames_data, sampled, lap, vresult>>
vars == <<qvars, vvars>>

NoResult == [kind |-> "none", val |-> "none", exc |-> "none", text |-> <<>>]
Returned(v, t) == [kind |-> "return", val |-> v, exc |-> "none", text |-> t]
ReturnedError(e) == [kind |-> "return", val |-> "error_string", exc |-> e, text |-> <<>>]
Raised(e) == [kind |-> "raise", val |-> "none", exc |-> e, text |-> <<>>]

NoVideoResult == [kind |-> "none", val |-> "none", exc |-> "none", count |-> 0]
ReturnedList == [kind |-> "return", val |-> "empty_list", exc |-> "none", count |-> 0]
ReturnedCount(n) == [kind |-> "return", val |-> "int", exc |-> "none", count |-> n]
VideoRaised(e) == [kind |-> "raise", val |-> "none", exc |-> e, count |-> 0]

\* ------------------------------------------------------------- helpers
Min(a, b) == IF a < b THEN a ELSE b
Max(a, b) == IF a > b THEN a ELSE b

\* int(x) for the rational num/den, den > 0: truncation toward zero
TruncDiv(num, den) == IF num >= 0 THEN num \div den ELSE -((-num) \div den)

\* bit b (a power of two) of mask m
HasBit(m, b) == (m \div b) % 2 = 1

RECURSIVE Concat(_)
Concat(ss) == IF ss = <<>> THEN <<>> ELSE Head(ss) \o Concat(Tail(ss))

\* sep.join(rows)
RECURSIVE Join(_, _)
Join(rows, sep) ==
    IF rows = <<>> THEN <<>>
    ELSE IF Len(rows) = 1 THEN rows[1]
    ELSE rows[1] \o <<sep>> \o Join(Tail(rows), sep)

\* height = int(width * aspect * 0.5), aspect = img.height / img.width
CharRows(w, iw, ih) == TruncDiv(w * ih, 2 * iw)

\* The buffers img.resize may return for a w x h target: the resampling
\* filter is a library primitive, so its output is any buffer of that shape.
\* The family used here: a two-level image whose 2x4 dot pattern is `seed`,
\* shifted by one position from each cell to the next.
Buffer(seed, lv, w, h) ==
    [r \in 0 .. h - 1 |->
        [c \in 0 .. w - 1 |->
            IF HasBit(seed, 2 ^ (((r % 4) + 4 * (c % 2) + (r \div 4) + (c \div 2)) % 8))
            THEN lv[1] ELSE lv[2]]]

BufH(p) == Cardinality(DOMAIN p)
BufW(p) == IF BufH(p) = 0 THEN 0 ELSE Cardinality(DOMAIN p[0])

\* pixels = 255 - pixels on a uint8 array
Invert(p) == [r \in DOMAIN p |-> [c \in DOMAIN p[r] |-> (255 - p[r][c]) % 256]]

\* block = pixels[y:min(y+4, shape[0]), x:min(x+2, shape[1])]
BlockRows(p, h, y) == Min(y + 4, h) - y
BlockCols(p, w, x) == Min(x + 2, w) - x

\* Faulty variant of FrameDots: dots 2 and 4 read each other's position (the rows and
\* columns of the block confused).
FrameDotsSwapped ==
    << <<0, 0, 0, 0, 1>>,   <<0, 1, 0, 1, 2>>,   <<2, 0, 2, 0, 4>>,
       <<1, 0, 1, 0, 8>>,   <<1, 1, 1, 1, 16>>,  <<2, 1, 2, 1, 32>>,
       <<3, 0, 3, 0, 64>>,  <<3, 1, 3, 1, 128>> >>

\* One entry per `if` of the quantizing loop:
\* <<g0, g1, a, b, bit>> is  if shape[0] > g0 and shape[1] > g1 and block[a, b] < threshold: bits |= bit
\* (the first `if` of each function is guarded by the enclosing shape test).
FrameDots ==
    << <<0, 0, 0, 0, 1>>,   <<1, 0, 1, 0, 2>>,   <<2, 0, 2, 0, 4>>,
       <<0, 1, 0, 1, 8>>,   <<1, 1, 1, 1, 16>>,  <<2, 1, 2, 1, 32>>,
       <<3, 0, 3, 0, 64>>,  <<3, 1, 3, 1, 128>> >>

ImageDots ==
    << <<0, 0, 0, 0, 1>>,   <<1, 0, 0, 1, 2>>,   <<2, 0, 0, 2, 4>>,
       <<0, 1, 1, 0, 8>>,   <<1, 1, 1, 1, 16>>,  <<2, 1, 1, 2, 32>>,
       <<3, 0, 2, 0, 64>>,  <<3, 1, 2, 1, 128>> >>

\* Faulty variant of On: the comparison reversed.
OnAbove(v, t) == v > t

\* the comparison that turns a dot on
On(v, t) == v < t

\* the guard of entry d holds for a block of shape (sh0, sh1)
Guarded(d, sh0, sh1) == sh0 > d[1] /\ sh1 > d[2]

\* block[a, b] of entry d is outside the block: numpy raises IndexError
OutOfBlock(d, sh0, sh1) == d[3] >= sh0 \/ d[4] >= sh1

\* the quantizing of the block at (y, x) raises IndexError
CellRaises(dots, p, h, w, y, x) ==
    LET sh0 == BlockRows(p, h, y)
        sh1 == BlockCols(p, w, x)
    IN  /\ sh0 > 0 /\ sh1 > 0
        /\ \E k \in 1 .. Len(dots) :
              Guarded(dots[k], sh0, sh1) /\ OutOfBlock(dots[k], sh0, sh1)

RECURSIVE SumDots(_, _, _, _, _, _, _, _)
SumDots(dots, k, p, y, x, sh0, sh1, t) ==
    IF k > Len(dots) THEN 0
    ELSE (IF Guarded(dots[k], sh0, sh1) /\ On(p[y + dots[k][3]][x + dots[k][4]], t)
          THEN dots[k][5] ELSE 0)
         + SumDots(dots, k + 1, p, y, x, sh0, sh1, t)

\* bits of the block at (y, x), when no index is out of the block
CellBits(dots, p, h, w, y, x, t) ==
    LET sh0 == BlockRows(p, h, y)
        sh1 == BlockCols(p, w, x)
    IN  IF sh0 > 0 /\ sh1 > 0 THEN SumDots(dots, 1, p, y, x, sh0, sh1, t) ELSE 0

\* number of x in range(0, w, 2)
NumCols(w) == IF w <= 0 THEN 0 ELSE (w + 1) \div 2

\* one row of glyphs: chr(0x2800 + bits) for x in range(0, w, 2)
GlyphRow(dots, p, h, w, y, t) ==
    [j \in 1 .. NumCols(w) |-> BrailleBase + CellBits(dots, p, h, w, y, 2 * (j - 1), t)]

\* the rows for y in range(0, rows * 4, 4)
GlyphRows(dots, p, h, w, rows, t) ==
    [i \in 1 .. rows |-> GlyphRow(dots, p, h, w, 4 * (i - 1), t)]

\* some block of the loop raises IndexError
LoopRaises(dots, p, h, w, rows) ==
    \E i \in 1 .. rows, j \in 1 .. NumCols(w) :
        CellRaises(dots, p, h, w, 4 * (i - 1), 2 * (j - 1))

\* img.resize((w, h)) raises ValueError
ResizeRaises(w, h) == w < 1 \/ h < 1

\* frame_to_braille from the resized buffer on: invert, quantize, join
FrameText(buf, w, rows, t) ==
    Join(GlyphRows(FrameDots, Invert(buf), BufH(buf), BufW(buf), rows, t), LF)

\* frame_to_braille(frame, width, threshold) when resize returns buf
FrameOutcome(buf, w, rows, t) ==
    IF LoopRaises(FrameDots, Invert(buf), BufH(buf), BufW(buf), rows)
    THEN Raised("IndexError")
    ELSE Returned("text", FrameText(buf, w, rows, t))

\* image_to_braille: every row is followed by '\n'
ImageText(p, w, rows, t) ==
    Concat([i \in 1 .. rows |->
              GlyphRows(ImageDots, p, BufH(p), BufW(p), rows, t)[i] \o <<LF>>])

\* image_to_braille from the (optionally inverted) buffer on; `except Exception`
\* turns every exception into the returned string "Error: ..."
ImageOutcome(p, w, rows, t) ==
    IF LoopRaises(ImageDots, p, BufH(p), BufW(p), rows)
    THEN ReturnedError("IndexError")
    ELSE Returned("text", ImageText(p, w, rows, t))

\* --------------------------------------------- the two conversion calls
VideoIdle ==
    /\ opened = FALSE /\ endless = FALSE /\ srcLen = 0 /\ pos = 0
    /\ video_fps = 0 /\ fps = 0 /\ max_duration = 0
    /\ total_frames = 0 /\ frame_skip = 0
    /\ frame_count = 0 /\ extracted_count = 0
    /\ frames_data = <<>> /\ sampled = <<>> /\ lap = FALSE /\ vresult = NoVideoResult

InitQuant ==
    /\ pc = "start" /\ fn = "none"
    /\ imgW \in 1 .. MaxImgW
    /\ imgH \in 1 .. MaxImgH
    /\ width \in Widths
    /\ threshold \in Thresholds
    /\ invert = FALSE /\ readable = TRUE
    /\ resized = <<>> /\ pixels = <<>>
    /\ result = NoResult
    /\ VideoIdle

\* frame_to_braille(frame, width, threshold); the frame is an in-memory
\* array, already opaque RGB or composited onto black.
FrameToBraille ==
    /\ pc = "start"
    /\ pc' = "done" /\ fn' = "frame_to_braille"
    /\ LET rows == CharRows(width, imgW, imgH) IN
       IF ResizeRaises(width, rows * 4)
       THEN /\ result' = Raised("ValueError")
            /\ UNCHANGED <<resized, pixels>>
       ELSE \E seed \in Seeds, lv \in PixLevels :
              /\ resized' = Buffer(seed, lv, width, rows * 4)
              /\ pixels' = Invert(resized')
              /\ result' = FrameOutcome(resized', width, rows, threshold)
    /\ UNCHANGED <<imgW, imgH, width, threshold, invert, readable>>
    /\ UNCHANGED vvars

\* image_to_braille(image_path, width, threshold, invert)
ImageToBraille ==
    /\ pc = "start"
    /\ pc' = "done" /\ fn' = "image_to_braille"
    /\ \E inv \in BOOLEAN, rd \in BOOLEAN :
        /\ invert' = inv /\ readable' = rd
        /\ LET rows == CharRows(width, imgW, imgH) IN
           IF ~rd
           THEN /\ result' = ReturnedError("OSError")
                /\ UNCHANGED <<resized, pixels>>
           ELSE IF ResizeRaises(width, rows * 4)
           THEN /\ result' = ReturnedError("ValueError")
                /\ UNCHANGED <<resized, pixels>>
           ELSE \E seed \in Seeds, lv \in PixLevels :
                  /\ resized' = Buffer(seed, lv, width, rows * 4)
                  /\ pixels' = IF inv THEN Invert(resized') ELSE resized'
                  /\ result' = ImageOutcome(pixels', width, rows, threshold)
    /\ UNCHANGED <<imgW, imgH, width, threshold>>
    /\ UNCHANGED vvars

NextQuant == FrameToBraille \/ ImageToBraille

SpecQuant == InitQuant /\ [][NextQuant]_vars

\* ------------------------------------------------ video_to_braille_frames
SetMax(S) == CHOOSE x \in S : \A y \in S : y <= x

\* The frame counter is capped so that the state space is finite.  Every scan
\* of a finite source, and every scan a positive max_duration cuts off, ends
\* below the cap; only the scan of an endless source without cutoff reaches
\* it.  The program goes on reading there (LoopBeyondCap): the counters and
\* the manifest then stand for "at least the cap".
ReadCap == SetMax(NativeFps) * SetMax(MaxDurations) + MaxFrames + 2

\* Faulty variant of FrameSkip: the operands of the division exchanged.
FrameSkipSwapped(vf, f) == Max(1, f \div vf)

\* frame_skip = max(1, video_fps // fps)
FrameSkip(vf, f) == Max(1, vf \div f)

\* Faulty variant of Cutoff: the test uses the counter of the previous frame.
CutoffLate(c, vf, md) == md > 0 /\ (c - 1) > md * vf

\* Faulty variant of Cutoff: the sign test on max_duration reversed.
CutoffNegative(c, vf, md) == md < 0 /\ c > md * vf

\* max_duration > 0 and frame_count / video_fps > max_duration
Cutoff(c, vf, md) == md > 0 /\ c > md * vf

\* frame_count % frame_skip == 0
IsSampled(c, skip) == c % skip = 0

\* int(cap.get(CAP_PROP_FRAME_COUNT)); an endless source reports no count
ReportedFrames == IF endless THEN 0 ELSE srcLen

\* total_frames after the max_duration adjustment (reported to the user only)
TotalFrames(n, vf, md) == IF md > 0 /\ n > md * vf THEN vf * md ELSE n

\* the resized buffer of source frame c (the decoded content is an input)
FrameBuffer(c, w, rows) == Buffer((37 * c + 71) % 256, <<0, 255>>, w, rows * 4)

\* Faulty variant of SampleEntry: the index taken from the source frame counter.
SampleEntryByFrame(n, c, text) == [name |-> <<"frame", n>>, content |-> text, index |-> c]

\* the manifest entry of a sample; the file name carries the sample number
SampleEntry(n, c, text) == [name |-> <<"frame", n>>, content |-> text, index |-> n]

InitVideo ==
    /\ pc = "start" /\ fn = "video_to_braille_frames"
    /\ imgW = 2 /\ imgH = 2
    /\ width \in VideoWidths
    /\ threshold = VideoThreshold
    /\ invert = FALSE /\ readable = TRUE
    /\ resized = <<>> /\ pixels = <<>> /\ result = NoResult
    /\ opened \in BOOLEAN
    /\ endless \in BOOLEAN
    /\ srcLen \in (IF endless THEN {0} ELSE 0 .. MaxFrames)
    /\ pos = 0
    /\ video_fps \in NativeFps
    /\ fps \in TargetFps
    /\ max_duration \in MaxDurations
    /\ total_frames = 0 /\ frame_skip = 0
    /\ frame_count = 0 /\ extracted_count = 0
    /\ frames_data = <<>> /\ sampled = <<>> /\ lap = FALSE
    /\ vresult = NoVideoResult

qinputs == <<fn, imgW, imgH, width, threshold, invert, readable>>
vinputs == <<opened, endless, srcLen, video_fps, fps, max_duration>>
vcap == <<lap>>

\* lines 56-79: open the capture, read its properties, set up the scan
Open ==
    /\ pc = "start"
    /\ IF ~opened
       THEN /\ vresult' = ReturnedList
            /\ pc' = "done"
            /\ UNCHANGED <<total_frames, frame_skip>>
       ELSE IF video_fps = 0
       THEN /\ vresult' = VideoRaised("ZeroDivisionError")
            /\ pc' = "done"
            /\ UNCHANGED <<total_frames, frame_skip>>
       ELSE /\ total_frames' = TotalFrames(ReportedFrames, video_fps, max_duration)
            /\ frame_skip' = FrameSkip(video_fps, fps)
            /\ pc' = "loop"
            /\ UNCHANGED vresult
    /\ frame_count' = 0 /\ extracted_count' = 0 /\ frames_data' = <<>>
    /\ UNCHANGED <<qinputs, vinputs, vcap, resized, pixels, result, pos, sampled>>

\* ret of cap.read(): a frame is delivered
ReadOk == endless \/ pos < srcLen

\* an iteration that leaves the loop, then lines 112-133
LoopBreak ==
    /\ pc = "loop"
    /\ ~ReadOk \/ Cutoff(frame_count, video_fps, max_duration)
    /\ pos' = IF ReadOk THEN pos + 1 ELSE pos
    /\ vresult' = ReturnedCount(extracted_count)
    /\ pc' = "done"
    /\ UNCHANGED <<qinputs, vinputs, vcap, resized, pixels, result, total_frames, frame_skip,
                   frame_count, extracted_count, frames_data, sampled>>

\* an iteration that converts and records the frame
LoopSample ==
    /\ pc = "loop" /\ frame_count < ReadCap
    /\ ReadOk /\ ~Cutoff(frame_count, video_fps, max_duration)
    /\ IsSampled(frame_count, frame_skip)
    /\ pos' = pos + 1
    /\ LET rows == CharRows(width, imgW, imgH) IN
       IF ResizeRaises(width, rows * 4)
       THEN /\ result' = Raised("ValueError")
            /\ vresult' = VideoRaised("ValueError")
            /\ pc' = "done"
            /\ UNCHANGED <<resized, pixels, frame_count, extracted_count, frames_data, sampled>>
       ELSE /\ resized' = FrameBuffer(frame_count, width, rows)
            /\ pixels' = Invert(resized')
            /\ result' = FrameOutcome(resized', width, rows, VideoThreshold)
            /\ IF result'.kind = "raise"
               THEN /\ vresult' = VideoRaised(result'.exc)
                    /\ pc' = "done"
                    /\ UNCHANGED <<frame_count, extracted_count, frames_data, sampled>>
               ELSE /\ frames_data' = Append(frames_data,
                                             SampleEntry(extracted_count, frame_count, result'.text))
                    /\ sampled' = Append(sampled, frame_count)
                    /\ extracted_count' = extracted_count + 1
                    /\ frame_count' = frame_count + 1
                    /\ UNCHANGED <<pc, vresult>>
    /\ UNCHANGED <<qinputs, vinputs, vcap, total_frames, frame_skip>>

\* an iteration that passes over the frame
LoopSkip ==
    /\ pc = "loop" /\ frame_count < ReadCap
    /\ ReadOk /\ ~Cutoff(frame_count, video_fps, max_duration)
    /\ ~IsSampled(frame_count, frame_skip)
    /\ pos' = pos + 1
    /\ frame_count' = frame_count + 1
    /\ UNCHANGED <<qinputs, vinputs, vcap, resized, pixels, result, total_frames, frame_skip,
                   extracted_count, frames_data, sampled, pc, vresult>>

\* an iteration with the counter at its cap: the frame is read and handled
\* like every other one; the counters stay at the cap and only the fact that
\* one more iteration ran is recorded
LoopBeyondCap ==
    /\ pc = "loop" /\ frame_count = ReadCap
    /\ ReadOk /\ ~Cutoff(frame_count, video_fps, max_duration)
    /\ lap' = ~lap
    /\ UNCHANGED <<qinputs, vinputs, resized, pixels, result, pos, total_frames, frame_skip,
                   frame_count, extracted_count, frames_data, sampled, pc, vresult>>

NextVideo == Open \/ LoopBreak \/ LoopSample \/ LoopSkip \/ LoopBeyondCap

SpecVideo == InitVideo /\ [][NextVideo]_vars

\* The loop is sequential code: whenever an iteration can run, it runs.
FairSpecVideo == SpecVideo /\ WF_vars(NextVideo)

\* ------------------------------------------------ quantizer properties
\* The dot table of the specification: <<row, col, bit>> of the 2x4 block.
SpecDotTable ==
    { <<0, 0, 1>>, <<1, 0, 2>>, <<2, 0, 4>>, <<0, 1, 8>>,
      <<1, 1, 16>>, <<2, 1, 32>>, <<3, 0, 64>>, <<3, 1, 128>> }

ExpectedRows == (width * imgH) \div (2 * imgW)     \* floor(w * (height/width) * 0.5), w >= 1
ExpectedCols == (width + 1) \div 2                 \* ceil(w / 2)

\* mask of the cell in character row i, column j (1-based) of a returned text
\* whose rows hold ExpectedCols glyphs and are separated by one line break
MaskAt(text, i, j) == text[(i - 1) * (ExpectedCols + 1) + j] - BrailleBase

\* every cell of `text` follows the dot table on buffer `buf` (the intensities
\* the comparison is meant to see)
FollowsDotTable(text, buf, t) ==
    \A i \in 1 .. ExpectedRows, j \in 1 .. ExpectedCols :
        \A d \in SpecDotTable :
            LET r == 4 * (i - 1) + d[1]
                c == 2 * (j - 1) + d[2]
            IN  HasBit(MaskAt(text, i, j), d[3])
                    <=> (r < 4 * ExpectedRows /\ c < width /\ buf[r][c] < t)

FrameReturnedGrid ==
    pc = "done" /\ fn = "frame_to_braille" /\ result.kind = "return"

\* C1: every mask frame_to_braille emits has the bit of dot k set exactly
\* when the block position the table assigns to dot k exists in the resized
\* buffer and its inverted intensity is below the threshold; a resized
\* buffer (width >= 1, at least one character row) never makes the loop
\* read outside a block.
C1_FrameMasksFollowTable ==
    (pc = "done" /\ fn = "frame_to_braille" /\ width >= 1 /\ ExpectedRows >= 1)
        => /\ result.kind = "return" /\ result.val = "text"
           /\ Len(result.text) = ExpectedRows * (ExpectedCols + 1) - 1
           /\ FollowsDotTable(result.text,
                              [r \in DOMAIN resized |->
                                 [c \in DOMAIN resized[r] |-> 255 - resized[r][c]]],
                              threshold)

\* an odd width with two character rows, whose clipped last cell has dots of
\* the left column on and off
C1_Witness ==
    /\ FrameReturnedGrid /\ width = 3 /\ ExpectedRows >= 2
    /\ MaskAt(result.text, 2, 2) \in {1, 2, 4, 64, 3, 70}
    /\ MaskAt(result.text, 1, 1) \notin {0, 255}

\* C2: image_to_braille on a readable image with width >= 1 and at least one
\* character row returns a glyph grid, never the "Error: ..." string, and
\* every mask follows the dot table (after the optional inversion).
C2_ImageReturnsGrid ==
    (pc = "done" /\ fn = "image_to_braille" /\ readable
        /\ width >= 1 /\ ExpectedRows >= 1)
        => /\ result.val = "text"
           /\ FollowsDotTable(result.text,
                              [r \in DOMAIN resized |->
                                 [c \in DOMAIN resized[r] |->
                                    IF invert THEN 255 - resized[r][c] ELSE resized[r][c]]],
                              threshold)

\* C7: a conversion call given width <= 0 or a threshold outside 0..255 never
\* returns a glyph grid: it ends in an error outcome.
C7_InvalidConfigRejected ==
    (pc = "done" /\ (width <= 0 \/ threshold \notin 0 .. 255))
        => result.val # "text"

BitSubset(m1, m2) ==
    \A b \in {1, 2, 4, 8, 16, 32, 64, 128} : HasBit(m1, b) => HasBit(m2, b)

\* C9: for the same frame and width, every dot frame_to_braille turns on at
\* the threshold of the call is also on at every higher threshold.
C9_ThresholdMonotone ==
    FrameReturnedGrid =>
        \A t2 \in Thresholds :
            t2 >= threshold =>
                LET hi == FrameText(resized, width, ExpectedRows, t2) IN
                \A i \in 1 .. ExpectedRows, j \in 1 .. ExpectedCols :
                    BitSubset(MaskAt(result.text, i, j), MaskAt(hi, i, j))

\* some dots are on at the call's threshold and a higher threshold adds more
C9_Witness ==
    /\ FrameReturnedGrid
    /\ MaskAt(result.text, 1, 1) \notin {0, 255}
    /\ \E t2 \in Thresholds :
         /\ t2 > threshold
         /\ MaskAt(FrameText(resized, width, ExpectedRows, t2), 1, 1) = 255

\* C10: for width >= 1 frame_to_braille returns a text of exactly
\* character_rows rows of ceil(w/2) glyphs in U+2800..U+28FF, separated by
\* single line breaks with no empty final row; with character_rows = 0 it
\* returns the empty text, not an error.
C10_GridShape ==
    (pc = "done" /\ fn = "frame_to_braille" /\ width >= 1)
        => /\ result.kind = "return" /\ result.val = "text"
           /\ Len(result.text) =
                 IF ExpectedRows = 0 THEN 0
                 ELSE ExpectedRows * (ExpectedCols + 1) - 1
           /\ \A k \in 1 .. Len(result.text) :
                 IF k % (ExpectedCols + 1) = 0
                 THEN result.text[k] = LF
                 ELSE result.text[k] \in BrailleBase .. BrailleBase + 255

\* ---------------------------------------------------- pipeline properties
IsVideo == fn = "video_to_braille_frames"
ReturnedNormally == IsVideo /\ pc = "done" /\ vresult.val = "int"

\* max(1, floor(native_fps / target_fps)), from the inputs
ExpectedSkip == IF video_fps \div fps >= 1 THEN video_fps \div fps ELSE 1

\* the source counter c has a timestamp c / native_fps beyond max_duration
Beyond(c) == c > max_duration * video_fps

SampledSet == {sampled[i] : i \in 1 .. Len(sampled)}

\* C3: when all N frames of a source are read and no frame reaches the
\* duration cutoff, the sampled source frames are exactly the c < N with
\* c mod frame_skip = 0, frame_skip = max(1, floor(native_fps / target_fps));
\* 30 fps sampled at 10 fps over 9 frames gives frame_skip 3 and frames 0, 3, 6.
C3_SampledFrames ==
    (ReturnedNormally /\ ~endless
        /\ (max_duration <= 0 \/ \A c \in 0 .. srcLen - 1 : ~Beyond(c)))
        => /\ frame_skip = ExpectedSkip
           /\ SampledSet = {c \in 0 .. srcLen - 1 : c % ExpectedSkip = 0}
           /\ Len(sampled) = Cardinality(SampledSet)
           /\ (video_fps = 30 /\ fps = 10 /\ srcLen = 9)
                 => (frame_skip = 3 /\ sampled = <<0, 3, 6>>)

C3_Witness ==
    /\ ReturnedNormally /\ ~endless
    /\ video_fps = 30 /\ fps = 10 /\ srcLen = 9 /\ max_duration = 1
    /\ Len(frames_data) = 3

\* C4: with max_duration > 0 no sampled frame has a timestamp beyond
\* max_duration, and nothing is sampled from the first frame beyond it on;
\* with max_duration = 0 the scan stops only at the end of the source, having
\* sampled every frame with c mod frame_skip = 0.
C4_DurationCutoff ==
    IsVideo =>
        /\ max_duration > 0 =>
              /\ \A i \in 1 .. Len(sampled) : ~Beyond(sampled[i])
              /\ \A c \in 0 .. frame_count - 1 : ~Beyond(c)
        /\ (max_duration = 0 /\ ReturnedNormally) =>
              /\ ~endless /\ pos = srcLen /\ frame_count = srcLen
              /\ SampledSet = {c \in 0 .. srcLen - 1 : c % ExpectedSkip = 0}

\* the cutoff ended the scan of a source that had more frames, and the last
\* sample lies exactly at max_duration
C4_Witness ==
    /\ ReturnedNormally /\ max_duration > 0
    /\ Beyond(frame_count) /\ pos = frame_count + 1
    /\ ~endless /\ pos < srcLen
    /\ Len(sampled) >= 2
    /\ sampled[Len(sampled)] = max_duration * video_fps

Terminated == pc = "done"

\* C5 as claimed: the scan of every source, finite or unbounded, eventually
\* terminates.
C5_AlwaysTerminates == <>Terminated

\* the scan ended at the first counter at which the read reported exhaustion
\* or the cutoff held
StopsAtFirst ==
    ReturnedNormally =>
        /\ \A c \in 0 .. frame_count - 1 : ~(max_duration > 0 /\ Beyond(c))
        /\ \/ ~endless /\ pos = srcLen /\ frame_count = srcLen
           \/ max_duration > 0 /\ Beyond(frame_count) /\ pos = frame_count + 1

\* C5 (amended): the scan of a finite source, and of any source when
\* max_duration > 0, eventually ends; a normal return happens at the first
\* counter where the read reports exhaustion or the timestamp exceeds
\* max_duration, and no frame is read after the call has ended.
C5_TerminatesWhenBounded ==
    /\ (IsVideo /\ (~endless \/ max_duration > 0)) => <>Terminated
    /\ []StopsAtFirst
    /\ [][Terminated => pos' = pos]_vars

\* an endless source cut off by max_duration after several samples
C5_Witness ==
    /\ ReturnedNormally /\ endless /\ max_duration > 0
    /\ Beyond(frame_count) /\ Len(sampled) >= 2

\* C6: the emitted samples carry the indices 0 .. k-1 in emission order,
\* k = extracted_count; sample i was produced from source frame
\* i * frame_skip; a normal return gives the number of emitted samples.
C6_SampleIndexing ==
    IsVideo =>
        /\ Len(frames_data) = extracted_count
        /\ Len(sampled) = extracted_count
        /\ \A i \in 1 .. Len(frames_data) :
              /\ frames_data[i].index = i - 1
              /\ sampled[i] = (i - 1) * ExpectedSkip
              /\ frames_data[i].content =
                    FrameText(FrameBuffer((i - 1) * ExpectedSkip, width,
                                          (width * imgH) \div (2 * imgW)),
                              width, (width * imgH) \div (2 * imgW), VideoThreshold)
        /\ ReturnedNormally => vresult.count = Len(frames_data)

C6_Witness ==
    /\ ReturnedNormally /\ frame_skip = 2
    /\ Len(frames_data) >= 4
    /\ frames_data[4].index = 3 /\ sampled[4] = 6
    /\ vresult.count = Len(frames_data)

\* C8: a video that cannot be opened ends the call in an error outcome, not in
\* a returned value, with no frame read or sampled.
C8_OpenFailurePropagates ==
    (IsVideo /\ pc = "done" /\ ~opened)
        => /\ vresult.kind = "raise"
           /\ pos = 0 /\ sampled = <<>> /\ frames_data = <<>>
====
